---- MODULE Spec2Model ----
(***************************************************************************)
(* Model of scripts/realtime_orderbook.py: the real-time order book        *)
(* monitor (RealtimeOrderbookConfig, RealtimeOrderbook, main).             *)
(*                                                                         *)
(* Numbers.  Every price, volume and notional is an integer counting       *)
(* quarters (0.25): 2 is 0.5, 4 is 1.0, 6 is 1.5, 10 is 2.5.  Quarters are *)
(* exact binary floats, so float(), round(), + and - of the source are     *)
(* exact on them.  spread_percent, the one quotient, is kept as the exact  *)
(* fraction n/d.  Thresholds of the spread alert are whole percents.       *)
(*                                                                         *)
(* Text.  A connector identifier is a sequence of one-character strings,   *)
(* so that lower() and the substring test `keyword in connector_lower`     *)
(* are computed, not assumed.                                              *)
(***************************************************************************)
EXTENDS Integers, Sequences, FiniteSets, TLC

VARIABLES
    config,             \* self.config (RealtimeOrderbookConfig), a record
    markets,            \* self.markets
    derivative_markets, \* self.derivative_markets: [present, value] (hasattr, value)
    is_running,         \* self.is_running
    update_count,       \* self.update_count
    last_update_time,   \* self.last_update_time: <<>> (None) or <<clock value>>
    orderbook_history,  \* self.orderbook_history
    now,                \* the wall clock read by datetime.now(), one unit per tick
    out,                \* what the last operation wrote to the logger / stderr
    driver,             \* who drives the ticks: "on_tick" (framework) or "main"
    loop,               \* the driving loop: "looping", "interrupted", "raised"
    orderbook,          \* what the provider did in the last tick (NotRead: not asked)
    explicit_type       \* the connector_type last supplied by a caller, or None

vars == <<config, markets, derivative_markets, is_running, update_count, last_update_time, orderbook_history,
          now, out, driver, loop, orderbook, explicit_type>>

None == "None"

\* ---------------------------------------------------------------- bounds
\* longest raw side (number of price levels) the provider returns
MaxLevels == 3
\* largest configured orderbook_depth
MaxDepth == 2
\* ticks of a run of the full loop
MaxTicks == 2
\* ticks of a long run (history eviction)
MaxHistTicks == 103
\* ticks of a long run during which the provider may still fail
MaxFlakyTicks == 2

\* `if len(self.orderbook_history) > 100`
HistoryCap == 100

\* ---------------------------------------------------------------- sequences
Range(s) == {s[i] : i \in 1..Len(s)}

RECURSIVE SeqSum(_)
SeqSum(s) == IF s = <<>> THEN 0 ELSE Head(s) + SeqSum(Tail(s))

\* seq[:n]
Take(s, n) == SubSeq(s, 1, IF n < Len(s) THEN n ELSE Len(s))

\* ---------------------------------------------------------------- text
UpperToLower ==
    ("A" :> "a") @@ ("B" :> "b") @@ ("C" :> "c") @@ ("D" :> "d") @@ ("E" :> "e") @@
    ("F" :> "f") @@ ("G" :> "g") @@ ("H" :> "h") @@ ("I" :> "i") @@ ("J" :> "j") @@
    ("K" :> "k") @@ ("L" :> "l") @@ ("M" :> "m") @@ ("N" :> "n") @@ ("O" :> "o") @@
    ("P" :> "p") @@ ("Q" :> "q") @@ ("R" :> "r") @@ ("S" :> "s") @@ ("T" :> "t") @@
    ("U" :> "u") @@ ("V" :> "v") @@ ("W" :> "w") @@ ("X" :> "x") @@ ("Y" :> "y") @@
    ("Z" :> "z")

\* str.lower()
Lower(s) == [i \in 1..Len(s) |->
                IF s[i] \in DOMAIN UpperToLower THEN UpperToLower[s[i]] ELSE s[i]]

\* `kw in s` on strings
Contains(kw, s) ==
    \E i \in 1..(Len(s) - Len(kw) + 1) : SubSeq(s, i, i + Len(kw) - 1) = kw

perpetual_keywords == <<
    <<"p","e","r","p","e","t","u","a","l">>,
    <<"p","e","r","p">>,
    <<"f","u","t","u","r","e","s">>,
    <<"d","e","r","i","v","a","t","i","v","e">>,
    <<"d","y","d","x">>,
    <<"h","y","p","e","r","l","i","q","u","i","d">>,
    <<"b","i","n","a","n","c","e","_","p","e","r","p","e","t","u","a","l">>,
    <<"b","y","b","i","t","_","p","e","r","p","e","t","u","a","l">>,
    <<"o","k","x","_","p","e","r","p","e","t","u","a","l">>,
    <<"k","u","c","o","i","n","_","p","e","r","p","e","t","u","a","l">>
  >>

\* connector identifiers the callers use
Kraken == <<"k","r","a","k","e","n">>
Dydx == <<"d","y","d","x">>
OkxPerpUpper == <<"O","K","X","_","P","E","R","P">>
BinancePaperTrade == <<"b","i","n","a","n","c","e","_","p","a","p","e","r","_","t","r","a","d","e">>

\* ---------------------------------------------------------------- configuration
\* An Optional[float] is <<>> (None) or <<x>>; an Optional[str] is None or a string.
\* Python truthiness: None, 0 / 0.0 and "" are false.
TruthyNum(o) == o # <<>> /\ o[1] # 0
TruthyStr(v) == v # None /\ v # ""

\* the class attributes of RealtimeOrderbookConfig (the fields the pipeline reads)
DefaultConfig ==
    [ connector              |-> BinancePaperTrade,
      trading_pair           |-> "ETH-USDT",
      orderbook_depth        |-> 10,
      connector_type         |-> "spot",
      compact_display        |-> FALSE,
      min_volume_filter      |-> <<>>,
      price_precision        |-> 4,
      volume_precision       |-> 4,
      json_output            |-> FALSE,
      csv_output             |-> FALSE,
      spread_alert_threshold |-> <<>>,
      volume_alert_threshold |-> <<>> ]

\* RealtimeOrderbookConfig.update_from_dict: keys the config does not have are skipped
update_from_dict(cfg, d) ==
    [k \in DOMAIN cfg |-> IF k \in DOMAIN d THEN d[k] ELSE cfg[k]]

\* the keyword loop of _detect_connector_type
KeywordMatch(connector_lower) ==
    \E i \in 1..Len(perpetual_keywords) : Contains(perpetual_keywords[i], connector_lower)

\* RealtimeOrderbook._detect_connector_type
DetectConnectorType(cfg) ==
    IF TruthyStr(cfg.connector_type)
    THEN cfg
    ELSE IF KeywordMatch(Lower(cfg.connector))
         THEN [cfg EXCEPT !.connector_type = "perpetual"]
         ELSE [cfg EXCEPT !.connector_type = "spot"]

\* the markets __init__ and update_config derive from the configuration
MarketsOf(cfg, had_derivative_markets) ==
    IF cfg.connector_type = "perpetual"
    THEN [ markets |-> {},
           derivative_markets |-> [present |-> TRUE,
                                   value |-> {<<cfg.connector, cfg.trading_pair>>}] ]
    ELSE [ markets |-> {<<cfg.connector, cfg.trading_pair>>},
           derivative_markets |-> [present |-> had_derivative_markets, value |-> {}] ]

\* ---------------------------------------------------------------- reduction
\* round(float(x), ndigits) on a count of quarters: ndigits = 0 rounds to a whole
\* number, ties to even (0.5 -> 0.0, 1.5 -> 2.0, 2.5 -> 2.0); with ndigits >= 2 a
\* quarter is already exact.  (ndigits = 1 leaves the quarters and is not drawn.)
Round(x, ndigits) ==
    IF ndigits >= 2 THEN x
    ELSE LET q == x \div 4
             r == x % 4
         IN  IF r < 2 THEN 4 * q
             ELSE IF r > 2 THEN 4 * (q + 1)
             ELSE IF q % 2 = 0 THEN 4 * q ELSE 4 * (q + 1)

\* Before as it would be if reverse=True were left out of the sort of the bids
BeforeAscending(x, y, reverse) == x.price < y.price

\* x goes before y in sorted(..., key=price, reverse=reverse)
Before(x, y, reverse) == IF reverse THEN x.price > y.price ELSE x.price < y.price

\* sorted() is stable: x is placed after every element that does not come after it
RECURSIVE InsertSorted(_, _, _)
InsertSorted(x, s, reverse) ==
    IF s = <<>> THEN <<x>>
    ELSE IF Before(x, Head(s), reverse) THEN <<x>> \o s
    ELSE <<Head(s)>> \o InsertSorted(x, Tail(s), reverse)

\* sorted(rows.values(), key=lambda x: x.price, reverse=reverse)
RECURSIVE Sorted(_, _)
Sorted(rows, reverse) ==
    IF rows = <<>> THEN <<>>
    ELSE InsertSorted(rows[Len(rows)], Sorted(SubSeq(rows, 1, Len(rows) - 1), reverse), reverse)

\* `if self.config.min_volume_filter and row.amount < self.config.min_volume_filter: continue`
Skipped(row, cfg) ==
    TruthyNum(cfg.min_volume_filter) /\ row.amount < cfg.min_volume_filter[1]

\* one appended entry of processed_bids / processed_asks
ProcessedRow(row, cfg) ==
    [ price  |-> Round(row.price, cfg.price_precision),
      volume |-> Round(row.amount, cfg.volume_precision),
      total  |-> Round((row.price * row.amount) \div 4, cfg.volume_precision) ]

\* the loop over sorted(...)[:orderbook_depth] of process_orderbook
ProcessSide(rows, reverse, cfg) ==
    LET cut  == Take(Sorted(rows, reverse), cfg.orderbook_depth)
        kept == SelectSeq(cut, LAMBDA row : ~Skipped(row, cfg))
    IN  [i \in 1..Len(kept) |-> ProcessedRow(kept[i], cfg)]

\* `processed[0]['price'] if processed else 0`
BestPrice(processed) == IF processed # <<>> THEN processed[1].price ELSE 0

\* `(best_bid + best_ask) / 2 if best_bid and best_ask else 0`
MidPrice(best_bid, best_ask) ==
    IF best_bid # 0 /\ best_ask # 0 THEN (best_bid + best_ask) \div 2 ELSE 0

\* `best_ask - best_bid if best_bid and best_ask else 0`
SpreadOf(best_bid, best_ask) ==
    IF best_bid # 0 /\ best_ask # 0 THEN best_ask - best_bid ELSE 0

\* `(spread / mid_price * 100) if mid_price > 0 else 0`, as the fraction n/d
SpreadPercent(spread, mid_price) ==
    IF mid_price > 0 THEN [n |-> 100 * spread, d |-> mid_price] ELSE [n |-> 0, d |-> 1]

\* RealtimeOrderbook.process_orderbook
process_orderbook(ob, cfg, count, clock) ==
    LET processed_bids == ProcessSide(ob.bids, TRUE, cfg)
        processed_asks == ProcessSide(ob.asks, FALSE, cfg)
        best_bid == BestPrice(processed_bids)
        best_ask == BestPrice(processed_asks)
        mid_price == MidPrice(best_bid, best_ask)
        spread == SpreadOf(best_bid, best_ask)
    IN  [ timestamp        |-> clock,
          connector        |-> cfg.connector,
          trading_pair     |-> cfg.trading_pair,
          bids             |-> processed_bids,
          asks             |-> processed_asks,
          best_bid         |-> best_bid,
          best_ask         |-> best_ask,
          mid_price        |-> mid_price,
          spread           |-> spread,
          spread_percent   |-> SpreadPercent(spread, mid_price),
          total_bid_volume |-> SeqSum([i \in 1..Len(processed_bids) |-> processed_bids[i].volume]),
          total_ask_volume |-> SeqSum([i \in 1..Len(processed_asks) |-> processed_asks[i].volume]),
          update_count     |-> count ]

\* ---------------------------------------------------------------- encoders, alerts
\* display_json_format / display_csv_format / display_table_format: the lines logged
Display(cfg, count) ==
    IF cfg.json_output THEN <<"json">>
    ELSE IF cfg.csv_output
         THEN (IF count = 1 THEN <<"csv_header">> ELSE <<>>) \o <<"csv_row">>
         ELSE IF cfg.compact_display THEN <<"compact_table">> ELSE <<"full_table">>

\* `self.config.spread_alert_threshold and data['spread_percent'] > threshold`
HighSpread(cfg, data) ==
    /\ TruthyNum(cfg.spread_alert_threshold)
    /\ data.spread_percent.n > cfg.spread_alert_threshold[1] * data.spread_percent.d

\* `if self.config.volume_alert_threshold: ... if total_volume < threshold`
LowVolume(cfg, data) ==
    /\ TruthyNum(cfg.volume_alert_threshold)
    /\ data.total_bid_volume + data.total_ask_volume < cfg.volume_alert_threshold[1]

\* RealtimeOrderbook.check_alerts: the warnings logged, in order
check_alerts(cfg, data) ==
    (IF HighSpread(cfg, data) THEN <<"alert_high_spread">> ELSE <<>>)
    \o (IF LowVolume(cfg, data) THEN <<"alert_low_volume">> ELSE <<>>)

\* ---------------------------------------------------------------- history
\* `if len(h) > 100: h.pop(0)` then `h.append(data)`
HistoryAppend(h, data) == (IF Len(h) > HistoryCap THEN Tail(h) ELSE h) \o <<data>>

\* ---------------------------------------------------------------- the provider
\* what the provider can do in a tick
NotRead == [connector |-> FALSE, book |-> "unread", bids |-> <<>>, asks |-> <<>>]
Unresolved == [connector |-> FALSE, book |-> "none", bids |-> <<>>, asks |-> <<>>]
ReadRaises == [connector |-> TRUE, book |-> "raise", bids |-> <<>>, asks |-> <<>>]
NoBook == [connector |-> TRUE, book |-> "none", bids |-> <<>>, asks |-> <<>>]
BookReply(bids, asks) == [connector |-> TRUE, book |-> "book", bids |-> bids, asks |-> asks]

\* ---------------------------------------------------------------- one cycle
\* What a call of fetch_and_display_orderbook leaves: whether it raised, the lines
\* it logged, and the three fields it may assign.

\* SkippedTick as it would be if the counter were bumped before the early returns
SkippedTickCounted(event) ==
    [ raised            |-> FALSE,
      out               |-> <<event>>,
      update_count      |-> update_count + 1,
      last_update_time  |-> <<now>>,
      orderbook_history |-> orderbook_history ]

\* an early `return` after logging `event`
SkippedTick(event) ==
    [ raised            |-> FALSE,
      out               |-> <<event>>,
      update_count      |-> update_count,
      last_update_time  |-> last_update_time,
      orderbook_history |-> orderbook_history ]

\* RaisedTick as it would be if the counter were bumped before display and alerts
RaisedTickCounted(events) ==
    [ raised            |-> TRUE,
      out               |-> events,
      update_count      |-> update_count + 1,
      last_update_time  |-> last_update_time,
      orderbook_history |-> orderbook_history ]

\* an exception leaving the method after it logged `events`
RaisedTick(events) ==
    [ raised            |-> TRUE,
      out               |-> events,
      update_count      |-> update_count,
      last_update_time  |-> last_update_time,
      orderbook_history |-> orderbook_history ]

\* lines 181-202: process, display, check alerts, count, store
CompletedTick(reply) ==
    LET data == process_orderbook(reply, config, update_count, now)
    IN  [ raised            |-> FALSE,
          out               |-> Display(config, update_count) \o check_alerts(config, data),
          update_count      |-> update_count + 1,
          last_update_time  |-> <<now>>,
          orderbook_history |-> HistoryAppend(orderbook_history, data) ]

\* RealtimeOrderbook.fetch_and_display_orderbook.  reply is what the provider does
\* in this tick: reply.connector, whether the connector is found; reply.book, "raise"
\* (get_order_book raises), "none" (a falsy order book) or "book" (bids and asks).
\* fault is the step after the read that raises, if any: "reduce" (process_orderbook),
\* "encode" (the display method, before it logs), "alert" (the comparisons of
\* check_alerts, before it logs), or "none".
fetch_and_display_orderbook(reply, fault) ==
    IF ~reply.connector THEN SkippedTick("error_connector_not_found")
    ELSE IF reply.book = "raise" THEN SkippedTick("error_failed_to_get_orderbook")
    ELSE IF reply.book = "none" THEN SkippedTick("warning_no_orderbook_data")
    ELSE IF fault \in {"reduce", "encode"} THEN RaisedTick(<<>>)
    ELSE IF fault = "alert" THEN RaisedTick(Display(config, update_count))
    ELSE CompletedTick(reply)

\* OnTickActive as it would be without the is_running check
OnTickActiveAlways(running) == TRUE

\* `if not self.is_running: return` of on_tick
OnTickActive(running) == running

\* RealtimeOrderbook.on_tick, called by the framework's clock
OnTick(reply, fault) ==
    /\ driver = "on_tick"
    /\ now' = now + 1
    /\ IF OnTickActive(is_running)
       THEN LET r == fetch_and_display_orderbook(reply, fault)
            IN  /\ update_count' = r.update_count
                /\ last_update_time' = r.last_update_time
                /\ orderbook_history' = r.orderbook_history
                /\ out' = r.out \o (IF r.raised THEN <<"error_in_orderbook_fetch">> ELSE <<>>)
                /\ orderbook' = reply
       ELSE /\ out' = <<>>
            /\ orderbook' = NotRead
            /\ UNCHANGED <<update_count, last_update_time, orderbook_history>>
    /\ UNCHANGED <<config, markets, derivative_markets, is_running, driver, loop, explicit_type>>

\* one iteration of `while True: strategy.fetch_and_display_orderbook(); time.sleep()`
\* of main; an exception other than KeyboardInterrupt leaves main
MainLoop(reply, fault) ==
    /\ driver = "main"
    /\ loop = "looping"
    /\ now' = now + 1
    /\ LET r == fetch_and_display_orderbook(reply, fault)
       IN  /\ update_count' = r.update_count
           /\ last_update_time' = r.last_update_time
           /\ orderbook_history' = r.orderbook_history
           /\ out' = r.out \o (IF r.raised THEN <<"traceback">> ELSE <<>>)
           /\ loop' = IF r.raised THEN "raised" ELSE "looping"
           /\ orderbook' = reply
    /\ UNCHANGED <<config, markets, derivative_markets, is_running, driver, explicit_type>>

\* RealtimeOrderbook.stop_monitoring
stop_monitoring ==
    /\ is_running' = FALSE
    /\ out' = <<"info_monitoring_stopped">>
    /\ UNCHANGED <<config, markets, derivative_markets, update_count, last_update_time,
                   orderbook_history, now, driver, orderbook, explicit_type>>

\* stop_monitoring called through the API while the framework drives the ticks
StopMonitoring ==
    /\ driver = "on_tick"
    /\ stop_monitoring
    /\ UNCHANGED loop

\* `except KeyboardInterrupt: strategy.stop_monitoring()` of main
KeyboardInterrupt ==
    /\ driver = "main"
    /\ loop = "looping"
    /\ stop_monitoring
    /\ loop' = "interrupted"

\* RealtimeOrderbook.update_config
UpdateConfig(new_config) ==
    /\ driver = "on_tick"
    /\ LET updated == update_from_dict(config, new_config)
           cfg == IF "connector" \in DOMAIN new_config
                  THEN DetectConnectorType(updated) ELSE updated
           remap == {"connector", "trading_pair", "connector_type"} \cap DOMAIN new_config # {}
           m == MarketsOf(cfg, derivative_markets.present)
       IN  /\ config' = cfg
           /\ markets' = IF remap THEN m.markets ELSE markets
           /\ derivative_markets' = IF remap THEN m.derivative_markets ELSE derivative_markets
           /\ out' = IF remap THEN <<"info_updated_config">> ELSE <<>>
    /\ explicit_type' =
          IF "connector_type" \in DOMAIN new_config
          THEN (IF TruthyStr(new_config.connector_type) THEN new_config.connector_type ELSE None)
          ELSE IF "connector" \in DOMAIN new_config THEN None ELSE explicit_type
    /\ UNCHANGED <<is_running, update_count, last_update_time, orderbook_history,
                   now, driver, loop, orderbook>>

\* ---------------------------------------------------------------- inputs
\* raw prices 0.5, 1.5, 2.5 and raw sizes 0.5, 1.0 (in quarters)
Prices == {2, 6, 10}
Amounts == {2, 4}
Levels == [price : Prices, amount : Amounts]

\* a raw side: the rows of one side of the book in provider order, one row per price
RECURSIVE SidesOfLen(_)
SidesOfLen(k) ==
    IF k = 0 THEN {<<>>}
    ELSE UNION { {Append(s, l) : l \in {x \in Levels : \A i \in 1..Len(s) : s[i].price # x.price}}
                 : s \in SidesOfLen(k - 1) }

Sides == UNION {SidesOfLen(k) : k \in 0..MaxLevels}

SkipReplies == {Unresolved, ReadRaises, NoBook}
AllBookReplies == {BookReply(b, a) : b \in Sides, a \in Sides}

\* two books for the runs of the loop: bid 1.5 / ask 2.5, and a one-sided book
TightBook == BookReply(<<[price |-> 2, amount |-> 2], [price |-> 6, amount |-> 4]>>,
                       <<[price |-> 10, amount |-> 4]>>)
BidsOnlyBook == BookReply(<<[price |-> 6, amount |-> 2]>>, <<>>)
LoopReplies == SkipReplies \cup {TightBook, BidsOnlyBook}

Faults == {"none", "reduce", "encode", "alert"}

\* dictionaries given to create_orderbook_monitor / set by main from its arguments
EmptyDict == <<>>
Join(A, B) == {a @@ b : a \in A, b \in B}
ConnectorDicts == {("connector" :> c) : c \in {Kraken, Dydx, OkxPerpUpper}}
TypeDicts == {EmptyDict} \cup {("connector_type" :> t) : t \in {None, "spot", "perpetual"}}
OutputDicts == {EmptyDict, ("csv_output" :> TRUE), ("json_output" :> TRUE)}
DepthDicts == {("orderbook_depth" :> n) : n \in 1..MaxDepth}
PrecisionDicts == {("price_precision" :> n) @@ ("volume_precision" :> n) : n \in {0, 2}}
FilterDicts == {("min_volume_filter" :> f) : f \in {<<>>, <<0>>, <<4>>}}
SpreadAlertDicts == {("spread_alert_threshold" :> t) : t \in {<<>>, <<0>>, <<50>>, <<100>>}}
VolumeAlertDicts == {("volume_alert_threshold" :> t) : t \in {<<>>, <<12>>}}

LoopDicts == Join(Join(ConnectorDicts, TypeDicts),
                  Join(OutputDicts, {("spread_alert_threshold" :> <<40>>)}))
ReduceDicts == Join(DepthDicts, Join(PrecisionDicts, FilterDicts))
AlertDicts == Join(PrecisionDicts, Join(SpreadAlertDicts, VolumeAlertDicts))
HistoryDicts == OutputDicts

\* dictionaries given to update_config
UpdateDicts ==
    ConnectorDicts \cup {("connector_type" :> t) : t \in {"spot", "perpetual"}}
    \cup {("is_running" :> TRUE)}

\* ---------------------------------------------------------------- specifications
\* RealtimeOrderbook.__init__ on the configuration create_orderbook_monitor / main
\* build from `d`
InitWith(dicts, drivers) ==
    \E d \in dicts, dr \in drivers :
        LET cfg == DetectConnectorType(update_from_dict(DefaultConfig, d))
            m == MarketsOf(cfg, FALSE)
        IN  /\ config = cfg
            /\ markets = m.markets
            /\ derivative_markets = m.derivative_markets
            /\ last_update_time = <<>>
            /\ update_count = 0
            /\ is_running = TRUE
            /\ orderbook_history = <<>>
            /\ now = 0
            /\ out = <<>>
            /\ driver = dr
            /\ loop = "looping"
            /\ orderbook = NotRead
            /\ explicit_type = IF "connector_type" \in DOMAIN d /\ TruthyStr(d.connector_type)
                               THEN d.connector_type ELSE None

\* the monitor under either driver, with its API
Init == InitWith(LoopDicts, {"on_tick", "main"})

Next ==
    \/ now < MaxTicks /\ \E reply \in LoopReplies, fault \in Faults : OnTick(reply, fault)
    \/ now < MaxTicks /\ \E reply \in LoopReplies, fault \in Faults : MainLoop(reply, fault)
    \/ StopMonitoring
    \/ KeyboardInterrupt
    \/ \E d \in UpdateDicts : UpdateConfig(d)

Spec == Init /\ [][Next]_vars

\* one cycle of the pipeline on every book, for each reduction configuration
InitReduce == InitWith(ReduceDicts, {"on_tick"})

NextOneTick == now < 1 /\ \E reply \in AllBookReplies : OnTick(reply, "none")

SpecReduce == InitReduce /\ [][NextOneTick]_vars

\* one cycle of the pipeline on every book, for each alert configuration
InitAlert == InitWith(AlertDicts, {"on_tick"})

SpecAlert == InitAlert /\ [][NextOneTick]_vars

\* a long run: the provider and the pipeline may fail during the first ticks only
InitHistory == InitWith(HistoryDicts, {"on_tick"})

NextHistory ==
    /\ now < MaxHistTicks
    /\ \E reply \in (IF now < MaxFlakyTicks THEN {NoBook, TightBook} ELSE {TightBook}),
          fault \in (IF now < MaxFlakyTicks THEN {"none", "encode", "alert"} ELSE {"none"}) :
          OnTick(reply, fault)

SpecHistory == InitHistory /\ [][NextHistory]_vars

\* ---------------------------------------------------------------- properties
\* the lines that are rendered output or alerts (the rest are errors and notices)
RenderedOrAlertLines ==
    {"json", "csv_header", "csv_row", "compact_table", "full_table",
     "alert_high_spread", "alert_low_volume"}

\* the lines that report a failed tick
TickFailureLines ==
    {"error_connector_not_found", "error_failed_to_get_orderbook",
     "warning_no_orderbook_data", "error_in_orderbook_fetch", "traceback"}

\* the last operation was a tick that ran to the end of the pipeline
LastTickCompleted ==
    /\ now > 0
    /\ last_update_time = <<now - 1>>
    /\ orderbook.book = "book"
    /\ Range(out) \cap RenderedOrAlertLines # {}

\* the snapshot the last completed tick stored
Latest == orderbook_history[Len(orderbook_history)]

\* C1: in every reachable state the history buffer holds at most 100 snapshots.
C1_HistoryAtMostCap == Len(orderbook_history) <= HistoryCap

\* C2: with CSV output selected, the header line is logged on the first completed
\* cycle, immediately before that cycle's data row, and on no later cycle.
C2_CsvHeaderOnFirstCycleOnly ==
    (config.csv_output /\ ~config.json_output /\ LastTickCompleted)
    => IF update_count = 1
       THEN out = <<"csv_header", "csv_row">> \o SubSeq(out, 3, Len(out))
       ELSE "csv_header" \notin Range(out)

\* the reduced side the specification describes: sort, drop the rows whose size is
\* strictly below a configured filter, then keep the first `depth`
FilterThenTruncate(rows, reverse, cfg) ==
    LET kept == SelectSeq(Sorted(rows, reverse),
                          LAMBDA row : ~(cfg.min_volume_filter # <<>>
                                         /\ row.amount < cfg.min_volume_filter[1]))
        cut == Take(kept, cfg.orderbook_depth)
    IN  [i \in 1..Len(cut) |-> ProcessedRow(cut[i], cfg)]

\* C3: each reduced side is the first `depth` rows of the sorted side after the
\* rows strictly below the filter are dropped (filter before truncation).
C3_FilterBeforeTruncation ==
    LastTickCompleted
    => /\ Latest.bids = FilterThenTruncate(orderbook.bids, TRUE, config)
       /\ Latest.asks = FilterThenTruncate(orderbook.asks, FALSE, config)

\* C4: a failed tick leaves the monitor running and the driving loop looping: no
\* exception leaves the loop, under the framework's on_tick and under main alike.
C4_TickFailureContained ==
    (Range(out) \cap TickFailureLines # {}) => (is_running /\ loop = "looping")

\* C5: eviction is strict FIFO: after more than 100 completed ticks the buffer holds
\* exactly the 100 most recent snapshots in order (after 101, the oldest kept is the
\* 2nd ever stored, whose sequence number is 1).
C5_StrictFifo ==
    update_count > HistoryCap
    => /\ Len(orderbook_history) = HistoryCap
       /\ \A i \in 1..HistoryCap :
             orderbook_history[i].update_count = update_count - HistoryCap + i - 1

\* C6: a supplied category is kept; with none supplied the category is perpetual iff
\* the lower-cased connector identifier contains a derivative keyword, else spot.
C6_Classification ==
    config.connector_type =
        IF explicit_type # None THEN explicit_type
        ELSE IF KeywordMatch(Lower(config.connector)) THEN "perpetual" ELSE "spot"

\* C7: with both reduced sides non-empty, mid_price is the mean of the two best
\* prices and spread their difference, also when a best price is 0; with a side
\* empty, mid_price, spread and spread_percent are 0.
C7_MidAndSpread ==
    LastTickCompleted
    => IF Latest.bids # <<>> /\ Latest.asks # <<>>
       THEN /\ Latest.mid_price = (Latest.bids[1].price + Latest.asks[1].price) \div 2
            /\ Latest.spread = Latest.asks[1].price - Latest.bids[1].price
       ELSE /\ Latest.mid_price = 0
            /\ Latest.spread = 0
            /\ Latest.spread_percent.n = 0

\* C8: with spread_alert_threshold set to a number, a cycle logs the high-spread
\* alert iff its spread_percent is strictly above the threshold; unset, never.
C8_HighSpreadIffAbove ==
    LastTickCompleted
    => ( "alert_high_spread" \in Range(out)
         <=> /\ config.spread_alert_threshold # <<>>
             /\ Latest.spread_percent.n
                  > config.spread_alert_threshold[1] * Latest.spread_percent.d )

\* C9: the monitor starts running; once stopped it stays stopped, and no later
\* operation changes the counter, the last-update time or the history, or logs
\* rendered output or alerts.
C9_StoppedIsTerminal ==
    /\ is_running = TRUE
    /\ [][ ~is_running
           => /\ ~is_running'
              /\ UNCHANGED <<update_count, last_update_time, orderbook_history>>
              /\ Range(out') \cap RenderedOrAlertLines = {} ]_vars

\* C9 witness: a tick was invoked on a stopped monitor that had completed cycles
C9_TickAfterStop ==
    ~is_running /\ orderbook = NotRead /\ update_count > 0 /\ out = <<>>

\* C10: a tick skipped for an unresolved connector, a raising read or a missing book
\* leaves counter, last-update time, history, configuration and running flag as
\* they were, and logs no rendered output and no alert.
C10_SkippedTickFrame ==
    [][ (now' = now + 1 /\ orderbook' \in SkipReplies)
        => /\ UNCHANGED <<update_count, last_update_time, orderbook_history,
                          config, is_running>>
           /\ Range(out') \cap RenderedOrAlertLines = {} ]_vars

\* C10 witness: a tick was skipped after an earlier one had completed
C10_SkippedAfterCompleted ==
    /\ orderbook \in SkipReplies
    /\ update_count > 0
    /\ Range(out) \cap TickFailureLines # {}
    /\ is_running = TRUE

\* C11: the reduced bids are ordered by non-increasing price, the reduced asks by
\* non-decreasing price, and each reduced side has at most `depth` levels.
C11_SidesOrderedAndBounded ==
    LastTickCompleted
    => /\ \A i \in 1..(Len(Latest.bids) - 1) : Latest.bids[i].price >= Latest.bids[i + 1].price
       /\ \A i \in 1..(Len(Latest.asks) - 1) : Latest.asks[i].price <= Latest.asks[i + 1].price
       /\ Len(Latest.bids) <= config.orderbook_depth
       /\ Len(Latest.asks) <= config.orderbook_depth

\* C11 witness: both raw sides were longer than the depth and out of order, and
\* both reduced sides hold two levels of different prices
C11_UnsortedLongSidesReduced ==
    /\ LastTickCompleted
    /\ Len(orderbook.bids) > config.orderbook_depth
    /\ Len(orderbook.asks) > config.orderbook_depth
    /\ orderbook.bids[1].price < orderbook.bids[2].price
    /\ orderbook.asks[1].price > orderbook.asks[2].price
    /\ Len(Latest.bids) = 2 /\ Latest.bids[1].price > Latest.bids[2].price
    /\ Len(Latest.asks) = 2 /\ Latest.asks[1].price < Latest.asks[2].price

\* this step stored one snapshot: the history is the old one, less its oldest entry
\* if one was evicted, with one entry added at the end
StoredOne ==
    /\ orderbook_history' # <<>>
    /\ SubSeq(orderbook_history', 1, Len(orderbook_history') - 1)
         \in {orderbook_history} \cup
             (IF orderbook_history # <<>> THEN {Tail(orderbook_history)} ELSE {})

\* C12: the cycle counter counts the snapshots ever stored (both start empty and
\* every step bumps the counter by one exactly when it stores one snapshot), it
\* never decreases, the sequence numbers held in the history rise by exactly 1 from
\* oldest to newest with the newest at update_count - 1, and a tick that raises
\* after the read neither counts nor stores.
C12_CounterMatchesHistory ==
    /\ update_count = 0 /\ orderbook_history = <<>>
    /\ [] /\ (update_count = 0) = (orderbook_history = <<>>)
          /\ \A i \in 1..Len(orderbook_history) :
                orderbook_history[i].update_count
                  = update_count - 1 - (Len(orderbook_history) - i)
    /\ [][ /\ update_count' >= update_count
           /\ (update_count' # update_count \/ orderbook_history' # orderbook_history)
              => (update_count' = update_count + 1 /\ StoredOne)
           /\ ("error_in_orderbook_fetch" \in Range(out'))
              => UNCHANGED <<update_count, orderbook_history>> ]_vars

\* C12 witness: a tick raised in check_alerts, after the display, on a monitor that
\* had stored one snapshot
C12_RaisedAfterDisplay ==
    /\ update_count = 1
    /\ Len(orderbook_history) = 1
    /\ now = 2
    /\ Len(out) >= 2
    /\ out[Len(out)] = "error_in_orderbook_fetch"
    /\ Range(out) \cap RenderedOrAlertLines # {}

====
